---- MODULE Spec2Model ----
(***************************************************************************)
(* PlanIT-API: the trip store (services/database), the chat routes that   *)
(* list / get / soft-delete trips, the plan route that creates them, and  *)
(* the audit log.  Every pool.query is one atomic statement of the        *)
(* database; the JavaScript between two awaits runs without interleaving. *)
(***************************************************************************)
EXTENDS Integers, Sequences, FiniteSets, TLC

\* ------------------------------------------------------------------ bounds
MaxTrips == 2
MaxTime == 2

\* ------------------------------------------------------------------ values
NULL == "null"
UNDEF == "undefined"
NullTime == 0
NoRow == <<>>

Users == {"u1", "u2"}
Requesters == Users \cup {NULL}
Procs == {"r1", "r2"}
Sequential == {"r1"}
TripIds == 1..MaxTrips

\* Texts are sequences of characters over a small alphabet with one cased letter.
Pa == <<"P", "a">>
Ab == <<"a", "b">>
Payloads == { [searchQuery |-> Pa, location |-> <<"b">>] }
PlanTokens == {"none", "u1", "expired"}
SearchTerms == { <<"p">>, <<"P", "A">>, <<"b">>, <<"_">>, <<"a", "%">>, <<"x">> }

Tokens == {"none", "u1", "u2", "malformed", "expired", "orphan"}

\* JavaScript truthiness of an identity (null, undefined are falsy) and of a
\* search text (undefined and the empty string are falsy; both are <<>> here).
Truthy(x) == x # NULL /\ x # UNDEF
NoSearch == <<>>

\* ------------------------------------------------------------------ text
LowerChar(c) == IF c = "P" THEN "p" ELSE IF c = "A" THEN "a" ELSE c
LOWER(t) == [i \in DOMAIN t |-> LowerChar(t[i])]

RECURSIVE LIKE(_, _)
LIKE(t, pat) ==
    IF pat = <<>> THEN t = <<>>
    ELSE IF Head(pat) = "%"
         THEN LIKE(t, Tail(pat)) \/ (t # <<>> /\ LIKE(Tail(t), pat))
         ELSE /\ t # <<>>
              /\ (Head(pat) = "_" \/ Head(pat) = Head(t))
              /\ LIKE(Tail(t), Tail(pat))

CharRank(c) ==
    CASE c = "%" -> 1 [] c = "A" -> 2 [] c = "P" -> 3 [] c = "_" -> 4
      [] c = "a" -> 5 [] c = "b" -> 6 [] c = "p" -> 7 [] OTHER -> 8

RECURSIVE TextLess(_, _)
TextLess(s, t) ==
    IF t = <<>> THEN FALSE
    ELSE IF s = <<>> THEN TRUE
    ELSE IF Head(s) = Head(t) THEN TextLess(Tail(s), Tail(t))
    ELSE CharRank(Head(s)) < CharRank(Head(t))

\* ------------------------------------------------------------------ state
VARIABLES
    trips,       \* table trips: id -> row
    audit_logs,  \* table audit_logs, in insertion order
    now,         \* the database clock, NOW()
    nextId,      \* number of uuidv4() ids handed out so far
    req,         \* per request slot: the request being served
    pc,          \* per request slot: the await it is suspended at
    local,       \* per request slot: the handler's and the store call's locals
    out,         \* what the request that finished in the latest step answered, if one did
    hist         \* history: per id, how many creates / soft / hard deletes took effect,
                 \* and how many deleteTrip calls returned the deleted trip

vars == <<trips, audit_logs, now, nextId, req, pc, local, out, hist>>

NoReq == [op |-> "none", userId |-> NULL, chatId |-> 0, arg |-> <<>>]
NoLocal ==
    [trip |-> NoRow, tripData |-> NoRow, deletedTrip |-> NoRow, ret |-> NoRow,
     threw |-> FALSE, rows |-> <<>>, total |-> 0 - 1, logged |-> "none"]
NoOut == [req |-> NoReq, local |-> NoLocal, status |-> 0, body |-> <<>>]

\* ------------------------------------------------------------------ rows
\* INSERT INTO trips (id, user_id, title, location, search_data): the other
\* columns take their defaults.
NewRow(id, userId, title, location, searchData, t) ==
    [id |-> id, user_id |-> userId, title |-> title, location |-> location,
     last_updated |-> t, search_data |-> searchData, deleted_at |-> NullTime,
     created_at |-> t, updated_at |-> t]

Col(r, name) == IF name \in DOMAIN r THEN r[name] ELSE UNDEF

formatTripFromDB(dbTrip) ==
    [id |-> Col(dbTrip, "id"), userId |-> Col(dbTrip, "user_id"),
     title |-> Col(dbTrip, "title"), location |-> Col(dbTrip, "location"),
     lastUpdated |-> Col(dbTrip, "last_updated"),
     searchData |-> Col(dbTrip, "search_data"),
     deletedAt |-> Col(dbTrip, "deleted_at"),
     createdAt |-> Col(dbTrip, "created_at"),
     updatedAt |-> Col(dbTrip, "updated_at")]

formatTripForList(chat) ==
    [id |-> chat.id, title |-> chat.title, location |-> chat.location,
     lastUpdated |-> chat.lastUpdated, searchData |-> chat.searchData]

\* ------------------------------------------------------------------ getTrips
\* The search condition: LOWER(column) LIKE LOWER('%' || search || '%') on the
\* title, the location and search_data->>'searchQuery'.
SearchMatches(r, search) ==
    LET pat == LOWER(<<"%">> \o search \o <<"%">>) IN
      \/ LIKE(LOWER(r.title), pat)
      \/ LIKE(LOWER(r.location), pat)
      \/ LIKE(LOWER(r.search_data.searchQuery), pat)

\* Variant: the owner condition is added only for an authenticated requester.
TripsWhereAnyOwner(r, userId, search) ==
    /\ r.deleted_at = NullTime
    /\ Truthy(userId) => r.user_id = userId
    /\ search # NoSearch => SearchMatches(r, search)

\* Variant: the condition "deleted_at IS NULL" is missing.
TripsWhereWithDeleted(r, userId, search) ==
    /\ IF Truthy(userId) THEN r.user_id = userId ELSE r.user_id = NULL
    /\ search # NoSearch => SearchMatches(r, search)

\* The WHERE clause of getTrips, for both the rows query and the count query.
TripsWhere(r, userId, search) ==
    /\ r.deleted_at = NullTime
    /\ IF Truthy(userId) THEN r.user_id = userId ELSE r.user_id = NULL
    /\ search # NoSearch => SearchMatches(r, search)

TripsMatching(T, userId, search) ==
    { T[i] : i \in { j \in DOMAIN T : TripsWhere(T[j], userId, search) } }

SortColumn(sortBy) ==
    IF sortBy \in {"last_updated", "title", "created_at"} THEN sortBy ELSE "last_updated"
SortDirection(sortOrder) == IF sortOrder = "asc" THEN "ASC" ELSE "DESC"

KeyLess(a, b, column) ==
    IF column = "title" THEN TextLess(a.title, b.title) ELSE a[column] < b[column]

\* ORDER BY column order: every arrangement of the rows that respects the
\* sort key; rows with equal keys come in any order.
OrderBy(S, column, order) ==
    LET n == Cardinality(S) IN
    { f \in [1..n -> S] :
        /\ \A i, j \in 1..n : i # j => f[i] # f[j]
        /\ \A i \in 1..n : i < n =>
              IF order = "ASC" THEN ~KeyLess(f[i + 1], f[i], column)
                               ELSE ~KeyLess(f[i], f[i + 1], column) }

LimitOffset(f, limit, offset) ==
    IF offset >= Len(f) THEN <<>>
    ELSE SubSeq(f, offset + 1, IF offset + limit < Len(f) THEN offset + limit ELSE Len(f))

\* The possible results of the rows query.
TripsQuery(T, o) ==
    { LimitOffset(f, o.limit, o.offset) :
        f \in OrderBy(TripsMatching(T, o.userId, o.search),
                      SortColumn(o.sortBy), SortDirection(o.sortOrder)) }

\* Variant: the total is counted after OFFSET has been applied.
TripsCountAfterOffset(T, o) ==
    LET n == Cardinality(TripsMatching(T, o.userId, o.search))
    IN IF o.offset < n THEN n - o.offset ELSE 0

TripsCount(T, o) == Cardinality(TripsMatching(T, o.userId, o.search))

\* Variant: hasMore and nextOffset compare with <= instead of <.
PaginationInclusive(total, limit, offset) ==
    [total |-> total, limit |-> limit, offset |-> offset,
     hasMore |-> offset + limit <= total,
     nextOffset |-> IF offset + limit <= total THEN offset + limit ELSE 0 - 1]

Pagination(total, limit, offset) ==
    [total |-> total, limit |-> limit, offset |-> offset,
     hasMore |-> offset + limit < total,
     nextOffset |-> IF offset + limit < total THEN offset + limit ELSE 0 - 1]

\* getTripById: SELECT * FROM trips WHERE id = $1
getTripById(T, tripId) ==
    IF tripId \in DOMAIN T THEN <<formatTripFromDB(T[tripId])>> ELSE NoRow

\* ------------------------------------------------------------------ requests
\* Variant: an expired token still resolves to its user.
optionalAuthIgnoringExpiry(token) ==
    IF token \in Users THEN token ELSE IF token = "expired" THEN "u1" ELSE NULL

\* optionalAuth: a verified token of an existing user resolves to that user;
\* no token, a token jwt.verify rejects, and a token of a user that no longer
\* exists all continue as anonymous.
optionalAuth(token) == IF token \in Users THEN token ELSE NULL

ListArgs ==
    { [limit |-> 1, offset |-> 0, sortBy |-> "lastUpdated", sortOrder |-> "desc", search |-> NoSearch],
      [limit |-> 2, offset |-> 0, sortBy |-> "title", sortOrder |-> "asc", search |-> <<"p">>] }

UpdateDatas ==
    { [title |-> <<Ab>>, location |-> <<>>, searchData |-> << [searchQuery |-> Ab] >>] }

RequestIp == "ip"
RequestAgent == "agent"

\* The identities req.userId takes, over every kind of credential.
Identities == { optionalAuth(tok) : tok \in Tokens }
PlanIdentities == { optionalAuth(tok) : tok \in PlanTokens }

ListRequest(u, a) == [op |-> "LIST", userId |-> u, chatId |-> 0, arg |-> a]
GetRequest(u, id) == [op |-> "GET", userId |-> u, chatId |-> id, arg |-> <<>>]
DeleteRequest(u, id) == [op |-> "DELETE", userId |-> u, chatId |-> id, arg |-> <<>>]
PlanRequest(u, id, pl) == [op |-> "PLAN", userId |-> u, chatId |-> id, arg |-> pl]
\* Direct calls of the store's exported operations take the default userId
\* (null) and auditData ({}).
StoreCall(op, id, d) == [op |-> op, userId |-> NULL, chatId |-> id, arg |-> d]

\* The tables as initializeDatabase creates them.  seedDatabase then inserts
\* sample trips without owner and without audit entries, unless its query
\* fails: such rows are like the ones POST /api/plan inserts for an anonymous
\* requester.
Init ==
    /\ trips = << >>
    /\ audit_logs = << >>
    /\ now = 1
    /\ nextId = 0
    /\ req = [p \in Procs |-> NoReq]
    /\ pc = [p \in Procs |-> "idle"]
    /\ local = [p \in Procs |-> NoLocal]
    /\ out = NoOut
    /\ hist = [i \in TripIds |-> [created |-> 0, softDeleted |-> 0, hardDeleted |-> 0,
                                   returned |-> 0]]

\* Request r of slot p is over: a handler has answered (status, body), a
\* direct store call has returned or thrown (status 0).  Its locals go out of
\* scope and the slot is free again.
Respond(p, r, loc, status, body) ==
    /\ pc' = [pc EXCEPT ![p] = "idle"]
    /\ req' = [req EXCEPT ![p] = NoReq]
    /\ local' = [local EXCEPT ![p] = NoLocal]
    /\ out' = [req |-> r, local |-> loc, status |-> status, body |-> body]

\* Request r of slot p waits for its next query.
Suspend(p, r, loc, label) ==
    /\ pc' = [pc EXCEPT ![p] = label]
    /\ req' = [req EXCEPT ![p] = r]
    /\ local' = [local EXCEPT ![p] = loc]
    /\ out' = NoOut

ErrorBody(error) == [success |-> FALSE, error |-> error]

\* Variant: the catch block of the list answers an empty page.
ThrowsAnsweringEmptyList(p, r, loc) ==
    IF r.op = "LIST"
    THEN Respond(p, r, [loc EXCEPT !.threw = TRUE], 200,
                 [success |-> TRUE, trips |-> <<>>,
                  pagination |-> Pagination(0, r.arg.limit, r.arg.offset)])
    ELSE IF r.op \in {"GET", "DELETE"}
         THEN Respond(p, r, [loc EXCEPT !.threw = TRUE], 500, ErrorBody("Internal Server Error"))
         ELSE Respond(p, r, [loc EXCEPT !.threw = TRUE], 0, <<>>)

\* The catch blocks of the chat handlers, and a store call that rethrows.
Throws(p, r, loc) ==
    IF r.op \in {"LIST", "GET", "DELETE"}
    THEN Respond(p, r, [loc EXCEPT !.threw = TRUE], 500, ErrorBody("Internal Server Error"))
    ELSE Respond(p, r, [loc EXCEPT !.threw = TRUE], 0, <<>>)

\* Variant: only an authenticated requester is ever denied.
AccessDeniedUsersOnly(trip, userId) == Truthy(userId) /\ trip.userId # userId

\* Variant: only trips of another user are denied.
AccessDeniedForeignOnly(trip, userId) == trip.userId # NULL /\ trip.userId # userId

\* The ownership check of GET and DELETE /:chatId.
AccessDenied(trip, userId) ==
    IF Truthy(userId) THEN trip.userId # userId ELSE trip.userId # NULL

\* ------------------------------------------------------------------ list
ListResponse(r, rows, total) ==
    [success |-> TRUE,
     trips |-> [i \in DOMAIN rows |-> formatTripForList(rows[i])],
     pagination |-> Pagination(total, r.arg.limit, r.arg.offset)]

ListOptions(r) ==
    [limit |-> r.arg.limit, offset |-> r.arg.offset, sortBy |-> r.arg.sortBy,
     sortOrder |-> r.arg.sortOrder, search |-> r.arg.search, userId |-> r.userId]

\* getTrips issues the rows query and the count query together (Promise.all);
\* the database runs them in either order.  The rows query:
RowsQuery(p, r, loc) ==
    \E page \in TripsQuery(trips, ListOptions(r)) :
        LET rows == [i \in DOMAIN page |-> formatTripFromDB(page[i])]
            l == [loc EXCEPT !.rows = <<rows>>]
        IN IF loc.total >= 0
           THEN Respond(p, r, l, 200, ListResponse(r, rows, loc.total))
           ELSE Suspend(p, r, l, "list")

\* The count query:
CountQuery(p, r, loc) ==
    LET total == TripsCount(trips, ListOptions(r))
        l == [loc EXCEPT !.total = total]
    IN IF loc.rows # <<>>
       THEN Respond(p, r, l, 200, ListResponse(r, loc.rows[1], total))
       ELSE Suspend(p, r, l, "list")

\* GET /api/chat arrives and the first of its two queries runs.
ChatList(p) ==
    /\ pc[p] = "idle"
    /\ \E u \in Identities, a \in ListArgs :
         \/ RowsQuery(p, ListRequest(u, a), NoLocal)
         \/ CountQuery(p, ListRequest(u, a), NoLocal)
    /\ UNCHANGED <<trips, audit_logs, now, nextId, hist>>

\* The other query runs and the handler answers.
ChatListRows(p) ==
    /\ pc[p] = "list"
    /\ local[p].rows = <<>>
    /\ RowsQuery(p, req[p], local[p])
    /\ UNCHANGED <<trips, audit_logs, now, nextId, hist>>

ChatListCount(p) ==
    /\ pc[p] = "list"
    /\ local[p].total < 0
    /\ CountQuery(p, req[p], local[p])
    /\ UNCHANGED <<trips, audit_logs, now, nextId, hist>>

\* GET /api/chat over every page of a stored table: the query parameters the
\* schema accepts, within small limits and offsets.
PageArgs ==
    [limit : {1, 2}, offset : 0..2, sortBy : {"lastUpdated", "title"},
     sortOrder : {"asc", "desc"}, search : {NoSearch, <<"p">>}]

ChatListAny(p) ==
    /\ pc[p] = "idle"
    /\ \E u \in PlanIdentities, a \in PageArgs :
         \/ RowsQuery(p, ListRequest(u, a), NoLocal)
         \/ CountQuery(p, ListRequest(u, a), NoLocal)
    /\ UNCHANGED <<trips, audit_logs, now, nextId, hist>>

\* ------------------------------------------------------------------ get
\* Variant: a trip the requester may not see is reported as missing.
ChatGetResultDeniedAsMissing(T, userId, chatId) ==
    LET trip == getTripById(T, chatId) IN
    IF trip = NoRow \/ AccessDenied(trip[1], userId)
    THEN [status |-> 404, body |-> ErrorBody("Chat Not Found")]
    ELSE [status |-> 200, body |-> [success |-> TRUE, trip |-> trip[1]]]

\* The outcome of GET /api/chat/:chatId on table T: one query, then the check.
ChatGetResult(T, userId, chatId) ==
    LET trip == getTripById(T, chatId) IN
    IF trip = NoRow THEN [status |-> 404, body |-> ErrorBody("Chat Not Found")]
    ELSE IF AccessDenied(trip[1], userId)
         THEN [status |-> 403, body |-> ErrorBody("Access Denied")]
         ELSE [status |-> 200, body |-> [success |-> TRUE, trip |-> trip[1]]]

ChatGet(p) ==
    /\ pc[p] = "idle"
    /\ \E u \in Identities, id \in TripIds :
         LET r == GetRequest(u, id)
             res == ChatGetResult(trips, r.userId, id)
         IN Respond(p, r, [NoLocal EXCEPT !.trip = getTripById(trips, id)],
                    res.status, res.body)
    /\ UNCHANGED <<trips, audit_logs, now, nextId, hist>>

\* ------------------------------------------------------------------ delete
DeleteResponse(r, deletedTrip) ==
    [success |-> TRUE,
     deletedTrip |-> [id |-> deletedTrip.id, title |-> deletedTrip.title,
                      location |-> deletedTrip.location, deletedAt |-> deletedTrip.deletedAt],
     audit |-> [action |-> "soft_delete", userId |-> r.userId, ipAddress |-> RequestIp]]

\* DELETE /api/chat/:chatId arrives: getTripById and the ownership check,
\* up to the call of deleteTrip.
ChatDelete(p) ==
    /\ pc[p] = "idle"
    /\ \E u \in Identities, id \in TripIds :
         LET r == DeleteRequest(u, id)
             tripToDelete == getTripById(trips, id)
             loc == [NoLocal EXCEPT !.trip = tripToDelete]
         IN IF tripToDelete = NoRow
            THEN Respond(p, r, loc, 404, ErrorBody("Chat Not Found"))
            ELSE IF AccessDenied(tripToDelete[1], r.userId)
                 THEN Respond(p, r, loc, 403, ErrorBody("Access Denied"))
                 ELSE Suspend(p, r, loc, "del_select")
    /\ UNCHANGED <<trips, audit_logs, now, nextId, hist>>

\* deleteTrip returns ret (NoRow for null) to its caller: the DELETE handler
\* answers, a direct call is over.
DeleteTripReturns(p, r, loc, ret) ==
    LET l == [loc EXCEPT !.ret = ret] IN
    IF r.op = "DELETE"
    THEN IF ret = NoRow
         THEN Respond(p, r, l, 500, ErrorBody("Database Error"))
         ELSE Respond(p, r, l, 200, DeleteResponse(r, ret[1]))
    ELSE Respond(p, r, l, 0, <<>>)

\* Variant: deleteTrip's statements do not test deleted_at.
DeletedAtAny(r) == TRUE

\* The condition "deleted_at IS NULL" of deleteTrip's two statements.
DeletedAtIsNull(r) == r.deleted_at = NullTime

\* SELECT * FROM trips WHERE id = $1 AND deleted_at IS NULL
SelectLiveTrip(p, r, loc) ==
    LET id == r.chatId
        found == id \in DOMAIN trips /\ DeletedAtIsNull(trips[id])
    IN IF found
       THEN Suspend(p, r, [loc EXCEPT !.tripData = <<trips[id]>>], "del_update")
       ELSE DeleteTripReturns(p, r, loc, NoRow)

\* deleteTrip called by the DELETE handler: its first query.
DeleteTripSelect(p) ==
    /\ pc[p] = "del_select"
    /\ SelectLiveTrip(p, req[p], local[p])
    /\ UNCHANGED <<trips, audit_logs, now, nextId, hist>>

\* deleteTrip called directly: its first query.
CallDeleteTrip(p) ==
    /\ pc[p] = "idle"
    /\ \E id \in TripIds : SelectLiveTrip(p, StoreCall("deleteTrip", id, <<>>), NoLocal)
    /\ UNCHANGED <<trips, audit_logs, now, nextId, hist>>

\* Variant: the statement is DELETE FROM trips WHERE id = $1 AND deleted_at IS NULL.
DeleteTripUpdateRemoving(p) ==
    /\ pc[p] = "del_update"
    /\ LET id == req[p].chatId
           found == id \in DOMAIN trips /\ DeletedAtIsNull(trips[id])
       IN IF found
          THEN /\ trips' = [i \in DOMAIN trips \ {id} |-> trips[i]]
               /\ hist' = [hist EXCEPT ![id].hardDeleted = @ + 1]
               /\ Suspend(p, req[p],
                          [local[p] EXCEPT !.deletedTrip =
                             << [id |-> id, title |-> trips[id].title,
                                 location |-> trips[id].location, deleted_at |-> now] >>],
                          "del_audit")
          ELSE /\ UNCHANGED <<trips, hist>>
               /\ DeleteTripReturns(p, req[p], local[p], NoRow)
    /\ UNCHANGED <<audit_logs, now, nextId>>

\* Variant: the UPDATE has no "AND deleted_at IS NULL".
DeleteTripUpdateUnguarded(p) ==
    /\ pc[p] = "del_update"
    /\ LET id == req[p].chatId
       IN IF id \in DOMAIN trips
          THEN /\ trips' = [trips EXCEPT ![id].deleted_at = now, ![id].updated_at = now]
               /\ hist' = [hist EXCEPT ![id].softDeleted = @ + 1]
               /\ Suspend(p, req[p],
                          [local[p] EXCEPT !.deletedTrip =
                             << [id |-> id, title |-> trips[id].title,
                                 location |-> trips[id].location, deleted_at |-> now] >>],
                          "del_audit")
          ELSE /\ UNCHANGED <<trips, hist>>
               /\ DeleteTripReturns(p, req[p], local[p], NoRow)
    /\ UNCHANGED <<audit_logs, now, nextId>>

\* Variant: the audit entry is written although the UPDATE has not taken effect.
DeleteTripUpdateNotCommitted(p) ==
    /\ pc[p] = "del_update"
    /\ LET id == req[p].chatId
           found == id \in DOMAIN trips /\ DeletedAtIsNull(trips[id])
       IN IF found
          THEN Suspend(p, req[p],
                       [local[p] EXCEPT !.deletedTrip =
                          << [id |-> id, title |-> trips[id].title,
                              location |-> trips[id].location, deleted_at |-> now] >>],
                       "del_audit")
          ELSE DeleteTripReturns(p, req[p], local[p], NoRow)
    /\ UNCHANGED <<trips, hist, audit_logs, now, nextId>>

\* UPDATE trips SET deleted_at = NOW(), updated_at = NOW()
\*  WHERE id = $1 AND deleted_at IS NULL RETURNING id, title, location, deleted_at
DeleteTripUpdate(p) ==
    /\ pc[p] = "del_update"
    /\ LET id == req[p].chatId
           found == id \in DOMAIN trips /\ DeletedAtIsNull(trips[id])
       IN IF found
          THEN /\ trips' = [trips EXCEPT ![id].deleted_at = now, ![id].updated_at = now]
               /\ hist' = [hist EXCEPT ![id].softDeleted = @ + 1]
               /\ Suspend(p, req[p],
                          [local[p] EXCEPT !.deletedTrip =
                             << [id |-> id, title |-> trips[id].title,
                                 location |-> trips[id].location, deleted_at |-> now] >>],
                          "del_audit")
          ELSE /\ UNCHANGED <<trips, hist>>
               /\ DeleteTripReturns(p, req[p], local[p], NoRow)
    /\ UNCHANGED <<audit_logs, now, nextId>>

OrNull(x) == IF Truthy(x) THEN x ELSE NULL

\* The row logAuditEvent inserts into audit_logs.
AuditRow(entityType, entityId, action, userId, oldData, newData, ipAddress, userAgent, t) ==
    [entity_type |-> entityType, entity_id |-> entityId, action |-> action,
     user_id |-> userId, old_data |-> oldData, new_data |-> newData,
     ip_address |-> OrNull(ipAddress), user_agent |-> OrNull(userAgent), timestamp |-> t]

AuditIp(r) == IF r.op = "DELETE" THEN RequestIp ELSE UNDEF
AuditAgent(r) == IF r.op = "DELETE" THEN RequestAgent ELSE UNDEF

\* Variant: the soft_delete entry is written without the old row and
\* without the actor.
DeleteTripAuditBare(p) ==
    /\ pc[p] = "del_audit"
    /\ audit_logs' = Append(audit_logs,
          AuditRow("trip", req[p].chatId, "soft_delete", NULL, NoRow,
                   << [deleted_at |-> local[p].deletedTrip[1].deleted_at] >>,
                   AuditIp(req[p]), AuditAgent(req[p]), now))
    /\ DeleteTripReturns(p, req[p], [local[p] EXCEPT !.logged = "ok"],
                         <<formatTripFromDB(local[p].deletedTrip[1])>>)
    /\ hist' = [hist EXCEPT ![req[p].chatId].returned = @ + 1]
    /\ UNCHANGED <<trips, now, nextId>>

\* logAuditEvent for the soft delete, then deleteTrip returns the deleted trip.
DeleteTripAudit(p) ==
    /\ pc[p] = "del_audit"
    /\ audit_logs' = Append(audit_logs,
          AuditRow("trip", req[p].chatId, "soft_delete", req[p].userId,
                   local[p].tripData,
                   << [deleted_at |-> local[p].deletedTrip[1].deleted_at] >>,
                   AuditIp(req[p]), AuditAgent(req[p]), now))
    /\ DeleteTripReturns(p, req[p], [local[p] EXCEPT !.logged = "ok"],
                         <<formatTripFromDB(local[p].deletedTrip[1])>>)
    /\ hist' = [hist EXCEPT ![req[p].chatId].returned = @ + 1]
    /\ UNCHANGED <<trips, now, nextId>>

\* ------------------------------------------------------------------ create
PlanResponse(r) ==
    [success |-> TRUE, chatId |-> r.chatId, title |-> r.arg.searchQuery,
     location |-> r.arg.location]

\* POST /api/plan: the handler draws a fresh uuid, createTrip inserts the row
\* (INSERT INTO trips ... RETURNING *), and the handler answers.  A failed
\* insert is logged and the handler answers all the same.
PlanCreateTrip(p) ==
    /\ pc[p] = "idle"
    /\ nextId < MaxTrips
    /\ nextId' = nextId + 1
    /\ \E u \in PlanIdentities, pl \in Payloads, saved \in BOOLEAN :
         LET id == nextId + 1
             r == PlanRequest(u, id, pl)
             row == NewRow(id, r.userId, pl.searchQuery, pl.location,
                           [searchQuery |-> pl.searchQuery], now)
         IN IF saved
            THEN /\ trips' = [i \in DOMAIN trips \cup {id} |-> IF i = id THEN row ELSE trips[i]]
                 /\ hist' = [hist EXCEPT ![id].created = @ + 1]
                 /\ Respond(p, r, [NoLocal EXCEPT !.ret = <<formatTripFromDB(row)>>], 200,
                            PlanResponse(r))
            ELSE /\ UNCHANGED <<trips, hist>>
                 /\ Respond(p, r, [NoLocal EXCEPT !.threw = TRUE], 200, PlanResponse(r))
    /\ UNCHANGED <<audit_logs, now>>

\* ------------------------------------------------------------------ update
COALESCE(opt, cur) == IF opt = <<>> THEN cur ELSE opt[1]

\* Variant: the UPDATE clears user_id too.
CallUpdateTripDisowning(p) ==
    /\ pc[p] = "idle"
    /\ \E id \in TripIds, d \in UpdateDatas :
         LET r == StoreCall("updateTrip", id, d) IN
         IF id \in DOMAIN trips
         THEN LET row == [trips[id] EXCEPT
                             !.title = COALESCE(d.title, @),
                             !.location = COALESCE(d.location, @),
                             !.search_data = COALESCE(d.searchData, @),
                             !.user_id = NULL,
                             !.updated_at = now]
              IN /\ trips' = [trips EXCEPT ![id] = row]
                 /\ Respond(p, r, [NoLocal EXCEPT !.ret = <<formatTripFromDB(row)>>], 0, <<>>)
         ELSE /\ trips' = trips
              /\ Respond(p, r, NoLocal, 0, <<>>)
    /\ UNCHANGED <<audit_logs, now, nextId, hist>>

\* updateTrip: UPDATE trips SET ... updated_at = NOW() WHERE id = $1 RETURNING *
CallUpdateTrip(p) ==
    /\ pc[p] = "idle"
    /\ \E id \in TripIds, d \in UpdateDatas :
         LET r == StoreCall("updateTrip", id, d) IN
         IF id \in DOMAIN trips
         THEN LET row == [trips[id] EXCEPT
                             !.title = COALESCE(d.title, @),
                             !.location = COALESCE(d.location, @),
                             !.search_data = COALESCE(d.searchData, @),
                             !.updated_at = now]
              IN /\ trips' = [trips EXCEPT ![id] = row]
                 /\ Respond(p, r, [NoLocal EXCEPT !.ret = <<formatTripFromDB(row)>>], 0, <<>>)
         ELSE /\ trips' = trips
              /\ Respond(p, r, NoLocal, 0, <<>>)
    /\ UNCHANGED <<audit_logs, now, nextId, hist>>

\* ------------------------------------------------------------------ hard delete
\* Variant: the SELECT of hardDeleteTrip has "AND deleted_at IS NULL".
CallHardDeleteTripLiveOnly(p) ==
    /\ pc[p] = "idle"
    /\ \E id \in TripIds :
         LET r == StoreCall("hardDeleteTrip", id, <<>>) IN
         IF id \in DOMAIN trips /\ trips[id].deleted_at = NullTime
         THEN Suspend(p, r, [NoLocal EXCEPT !.tripData = <<trips[id]>>], "hd_delete")
         ELSE Respond(p, r, [NoLocal EXCEPT !.ret = <<FALSE>>], 0, <<>>)
    /\ UNCHANGED <<trips, audit_logs, now, nextId, hist>>

\* hardDeleteTrip called directly: SELECT * FROM trips WHERE id = $1
CallHardDeleteTrip(p) ==
    /\ pc[p] = "idle"
    /\ \E id \in TripIds :
         LET r == StoreCall("hardDeleteTrip", id, <<>>) IN
         IF id \in DOMAIN trips
         THEN Suspend(p, r, [NoLocal EXCEPT !.tripData = <<trips[id]>>], "hd_delete")
         ELSE Respond(p, r, [NoLocal EXCEPT !.ret = <<FALSE>>], 0, <<>>)
    /\ UNCHANGED <<trips, audit_logs, now, nextId, hist>>

\* DELETE FROM trips WHERE id = $1 RETURNING id
HardDeleteDelete(p) ==
    /\ pc[p] = "hd_delete"
    /\ LET id == req[p].chatId
       IN IF id \in DOMAIN trips
          THEN /\ trips' = [i \in DOMAIN trips \ {id} |-> trips[i]]
               /\ hist' = [hist EXCEPT ![id].hardDeleted = @ + 1]
               /\ Suspend(p, req[p], local[p], "hd_audit")
          ELSE /\ UNCHANGED <<trips, hist>>
               /\ Respond(p, req[p], [local[p] EXCEPT !.ret = <<FALSE>>], 0, <<>>)
    /\ UNCHANGED <<audit_logs, now, nextId>>

\* logAuditEvent for the hard delete, then hardDeleteTrip returns true.
HardDeleteAudit(p) ==
    /\ pc[p] = "hd_audit"
    /\ audit_logs' = Append(audit_logs,
          AuditRow("trip", req[p].chatId, "hard_delete", req[p].userId,
                   local[p].tripData, NoRow, UNDEF, UNDEF, now))
    /\ Respond(p, req[p], [local[p] EXCEPT !.logged = "ok", !.ret = <<TRUE>>], 0, <<>>)
    /\ UNCHANGED <<trips, now, nextId, hist>>

\* ------------------------------------------------------------------ failures
\* The first pool.query of an arriving request rejects.
RouteArrivalError(p) ==
    /\ pc[p] = "idle"
    /\ \E r \in { ListRequest(u, a) : u \in Identities, a \in ListArgs }
             \cup { GetRequest(u, id) : u \in Identities, id \in TripIds }
             \cup { DeleteRequest(u, id) : u \in Identities, id \in TripIds } :
         Throws(p, r, NoLocal)
    /\ UNCHANGED <<trips, audit_logs, now, nextId, hist>>

\* The first pool.query of a direct store call rejects.
StoreCallError(p) ==
    /\ pc[p] = "idle"
    /\ \E r \in { StoreCall(op, id, <<>>) : op \in {"deleteTrip", "hardDeleteTrip"}, id \in TripIds }
             \cup { StoreCall("updateTrip", id, d) : id \in TripIds, d \in UpdateDatas } :
         Throws(p, r, NoLocal)
    /\ UNCHANGED <<trips, audit_logs, now, nextId, hist>>

\* Variant: logAuditEvent rethrows, so a failed audit insert propagates too.
QueryErrorPropagates(p) ==
    /\ pc[p] # "idle"
    /\ Throws(p, req[p], local[p])
    /\ UNCHANGED <<trips, audit_logs, now, nextId, hist>>

\* The pending pool.query of a suspended request rejects.  logAuditEvent logs
\* and swallows the error; everything else propagates.
QueryError(p) ==
    /\ pc[p] # "idle"
    /\ CASE pc[p] = "del_audit" ->
              /\ DeleteTripReturns(p, req[p], [local[p] EXCEPT !.logged = "error"],
                                   <<formatTripFromDB(local[p].deletedTrip[1])>>)
              /\ hist' = [hist EXCEPT ![req[p].chatId].returned = @ + 1]
         [] pc[p] = "hd_audit" ->
              /\ Respond(p, req[p], [local[p] EXCEPT !.logged = "error", !.ret = <<TRUE>>],
                         0, <<>>)
              /\ hist' = hist
         [] OTHER ->
              /\ Throws(p, req[p], local[p])
              /\ hist' = hist
    /\ UNCHANGED <<trips, audit_logs, now, nextId>>

\* Time passes on the database clock.
Tick ==
    /\ now < MaxTime
    /\ now' = now + 1
    /\ out' = NoOut
    /\ UNCHANGED <<trips, audit_logs, nextId, req, pc, local, hist>>

\* ------------------------------------------------------------------ spec
\* The request surface: GET /api/chat, GET and DELETE /api/chat/:chatId,
\* POST /api/plan.
Routes(p) ==
    \/ ChatList(p) \/ ChatListRows(p) \/ ChatListCount(p)
    \/ ChatGet(p)
    \/ ChatDelete(p) \/ DeleteTripSelect(p) \/ DeleteTripUpdate(p) \/ DeleteTripAudit(p)
    \/ PlanCreateTrip(p)
    \/ RouteArrivalError(p) \/ QueryError(p)

\* The store's operations called directly; trips come from POST /api/plan.
StoreCalls(p) ==
    \/ PlanCreateTrip(p)
    \/ CallDeleteTrip(p) \/ DeleteTripUpdate(p) \/ DeleteTripAudit(p)
    \/ CallUpdateTrip(p)
    \/ CallHardDeleteTrip(p) \/ HardDeleteDelete(p) \/ HardDeleteAudit(p)
    \/ StoreCallError(p) \/ QueryError(p)

\* Requests on the request surface, one at a time.
Next == Tick \/ \E p \in Sequential : Routes(p)

Spec == Init /\ [][Next]_vars

\* Direct store calls, one at a time.
NextStore == Tick \/ \E p \in Sequential : StoreCalls(p)

SpecStore == Init /\ [][NextStore]_vars

\* Two requests in flight at once, and updateTrip calls between their
\* queries, on the trips created so far.
RaceTrips == 1
PlanCreateTripRace(p) == nextId < RaceTrips /\ PlanCreateTrip(p)
RaceRoutes(p) ==
    \/ ChatList(p) \/ ChatListRows(p) \/ ChatListCount(p)
    \/ ChatGet(p)
    \/ ChatDelete(p) \/ DeleteTripSelect(p) \/ DeleteTripUpdate(p) \/ DeleteTripAudit(p)
    \/ PlanCreateTripRace(p)
    \/ CallUpdateTrip(p)
    \/ QueryError(p)
NextRace == \E p \in Procs : RaceRoutes(p)

SpecRace == Init /\ [][NextRace]_vars

\* Lists over a stored table.  The table holds MaxListTrips trips that
\* POST /api/plan created at times t[i]; trip 1 is anonymous or of user u1,
\* the others are anonymous; updateTrip may have retitled trip 2 and
\* deleteTrip may have soft-deleted the last trip, both at time MaxTime.
MaxListTrips == 3
ListIds == 1..MaxListTrips

StoredRow(id, owner, retitled, deleted, t) ==
    LET created == NewRow(id, owner, Pa, <<"b">>, [searchQuery |-> Pa], t)
        updated == IF retitled
                   THEN [created EXCEPT !.title = Ab, !.search_data = [searchQuery |-> Ab],
                                        !.updated_at = MaxTime]
                   ELSE created
    IN IF deleted
       THEN [updated EXCEPT !.deleted_at = MaxTime, !.updated_at = MaxTime]
       ELSE updated

InitList ==
    /\ \E owner \in PlanIdentities, retitled \in BOOLEAN, deleted \in BOOLEAN,
          t \in [ListIds -> 1..MaxTime] :
          /\ trips = [i \in ListIds |->
                        StoredRow(i, IF i = 1 THEN owner ELSE NULL, i = 2 /\ retitled,
                                  i = MaxListTrips /\ deleted, t[i])]
          /\ hist = [i \in ListIds |->
                       [created |-> 1,
                        softDeleted |-> IF i = MaxListTrips /\ deleted THEN 1 ELSE 0,
                        hardDeleted |-> 0,
                        returned |-> IF i = MaxListTrips /\ deleted THEN 1 ELSE 0]]
    /\ audit_logs = << >>
    /\ now = MaxTime
    /\ nextId = MaxListTrips
    /\ req = [p \in Procs |-> NoReq]
    /\ pc = [p \in Procs |-> "idle"]
    /\ local = [p \in Procs |-> NoLocal]
    /\ out = NoOut

NextList == \E p \in Sequential : ChatListAny(p) \/ ChatListRows(p) \/ ChatListCount(p)

SpecList == InitList /\ [][NextList]_vars

\* ------------------------------------------------------------------ validation
\* A query-string value read as a number: absent, text that is no number, a
\* number with a fraction, or an integer n.
RawNumbers(S) ==
    { [kind |-> "absent", n |-> 0], [kind |-> "text", n |-> 0], [kind |-> "fraction", n |-> 1] }
      \cup { [kind |-> "int", n |-> i] : i \in S }

RawLimits == {0, 1, 100, 101}
RawOffsets == {0 - 1, 0, 1}

\* The query strings of GET /api/chat (UNDEF: the key is absent): every
\* limit with every offset, and every sort field with every direction.
EmptyQuery ==
    [limit |-> [kind |-> "absent", n |-> 0], offset |-> [kind |-> "absent", n |-> 0],
     sortBy |-> UNDEF, sortOrder |-> UNDEF]

RawQueries ==
    { [EmptyQuery EXCEPT !.limit = l, !.offset = o] :
        l \in RawNumbers(RawLimits), o \in RawNumbers(RawOffsets) }
      \cup { [EmptyQuery EXCEPT !.sortBy = b, !.sortOrder = d] :
               b \in {UNDEF, "lastUpdated", "title", "createdAt"},
               d \in {UNDEF, "asc", "desc", "up"} }

\* The :chatId path parameters: the UUID of trip id, or text of another form.
RawChatIds ==
    { [form |-> "uuid", id |-> i] : i \in TripIds }
      \cup { [form |-> f, id |-> 0] : f \in {"word", "digits", "shortened"} }

\* Joi.number().integer(): the converted value, <<>> if there is none.
JoiNumberInteger(raw) == IF raw.kind = "int" THEN <<raw.n>> ELSE <<>>

\* Joi.string().valid(...).
JoiStringValid(raw, allowed) == IF raw \in allowed THEN <<raw>> ELSE <<>>

\* Variant: the limit is any integer.
tripQuerySchemaAnyLimit(q) ==
    LET limit == JoiNumberInteger(q.limit)
        offset == JoiNumberInteger(q.offset)
        sortBy == JoiStringValid(q.sortBy, {"lastUpdated", "title"})
        sortOrder == JoiStringValid(q.sortOrder, {"asc", "desc"})
        error ==
            \/ q.limit.kind # "absent" /\ limit = <<>>
            \/ q.offset.kind # "absent" /\ (offset = <<>> \/ (offset # <<>> /\ offset[1] < 0))
            \/ q.sortBy # UNDEF /\ sortBy = <<>>
            \/ q.sortOrder # UNDEF /\ sortOrder = <<>>
    IN [error |-> error,
        value |-> IF error THEN <<>>
                  ELSE [limit |-> IF q.limit.kind = "absent" THEN 50 ELSE limit[1],
                        offset |-> IF q.offset.kind = "absent" THEN 0 ELSE offset[1],
                        sortBy |-> IF q.sortBy = UNDEF THEN "lastUpdated" ELSE sortBy[1],
                        sortOrder |-> IF q.sortOrder = UNDEF THEN "desc" ELSE sortOrder[1],
                        search |-> NoSearch]]

\* tripQuerySchema.validate(req.query): the error, or the value with defaults.
tripQuerySchema(q) ==
    LET limit == JoiNumberInteger(q.limit)
        offset == JoiNumberInteger(q.offset)
        sortBy == JoiStringValid(q.sortBy, {"lastUpdated", "title"})
        sortOrder == JoiStringValid(q.sortOrder, {"asc", "desc"})
        error ==
            \/ q.limit.kind # "absent"
                 /\ (limit = <<>> \/ (limit # <<>> /\ (limit[1] < 1 \/ limit[1] > 100)))
            \/ q.offset.kind # "absent" /\ (offset = <<>> \/ (offset # <<>> /\ offset[1] < 0))
            \/ q.sortBy # UNDEF /\ sortBy = <<>>
            \/ q.sortOrder # UNDEF /\ sortOrder = <<>>
    IN [error |-> error,
        value |-> IF error THEN <<>>
                  ELSE [limit |-> IF q.limit.kind = "absent" THEN 50 ELSE limit[1],
                        offset |-> IF q.offset.kind = "absent" THEN 0 ELSE offset[1],
                        sortBy |-> IF q.sortBy = UNDEF THEN "lastUpdated" ELSE sortBy[1],
                        sortOrder |-> IF q.sortOrder = UNDEF THEN "desc" ELSE sortOrder[1],
                        search |-> NoSearch]]

\* tripIdSchema.validate(req.params.chatId).
tripIdSchema(c) == [error |-> c.form # "uuid", value |-> c.id]

ValidationError == ErrorBody("Validation Error")

\* GET /api/chat with query string q: validation, then the first query.
ChatListRaw(p) ==
    /\ pc[p] = "idle"
    /\ \E u \in PlanIdentities, q \in RawQueries :
         LET v == tripQuerySchema(q) IN
         IF v.error
         THEN Respond(p, ListRequest(u, [raw |-> q]), NoLocal, 400, ValidationError)
         ELSE LET r == ListRequest(u, [raw |-> q, limit |-> v.value.limit,
                                       offset |-> v.value.offset, sortBy |-> v.value.sortBy,
                                       sortOrder |-> v.value.sortOrder,
                                       search |-> v.value.search])
              IN \/ RowsQuery(p, r, NoLocal)
                 \/ CountQuery(p, r, NoLocal)
    /\ UNCHANGED <<trips, audit_logs, now, nextId, hist>>

\* GET /api/chat/:chatId with path parameter c.
ChatGetRaw(p) ==
    /\ pc[p] = "idle"
    /\ \E u \in PlanIdentities, c \in RawChatIds :
         LET v == tripIdSchema(c)
             r == [GetRequest(u, v.value) EXCEPT !.arg = [raw |-> c]]
             res == ChatGetResult(trips, r.userId, v.value)
         IN IF v.error
            THEN Respond(p, r, NoLocal, 400, ValidationError)
            ELSE Respond(p, r, [NoLocal EXCEPT !.trip = getTripById(trips, v.value)],
                         res.status, res.body)
    /\ UNCHANGED <<trips, audit_logs, now, nextId, hist>>

\* DELETE /api/chat/:chatId with path parameter c, up to the call of deleteTrip.
ChatDeleteRaw(p) ==
    /\ pc[p] = "idle"
    /\ \E u \in PlanIdentities, c \in RawChatIds :
         LET v == tripIdSchema(c)
             r == [DeleteRequest(u, v.value) EXCEPT !.arg = [raw |-> c]]
             tripToDelete == getTripById(trips, v.value)
             loc == [NoLocal EXCEPT !.trip = tripToDelete]
         IN IF v.error
            THEN Respond(p, r, NoLocal, 400, ValidationError)
            ELSE IF tripToDelete = NoRow
                 THEN Respond(p, r, loc, 404, ErrorBody("Chat Not Found"))
                 ELSE IF AccessDenied(tripToDelete[1], r.userId)
                      THEN Respond(p, r, loc, 403, ErrorBody("Access Denied"))
                      ELSE Suspend(p, r, loc, "del_select")
    /\ UNCHANGED <<trips, audit_logs, now, nextId, hist>>

ValidatedRoutes(p) ==
    \/ ChatListRaw(p) \/ ChatListRows(p) \/ ChatListCount(p)
    \/ ChatGetRaw(p)
    \/ ChatDeleteRaw(p) \/ DeleteTripSelect(p) \/ DeleteTripUpdate(p) \/ DeleteTripAudit(p)
    \/ PlanCreateTrip(p)

\* Requests as they arrive, before validation, one at a time.
NextValidate == \E p \in Sequential : ValidatedRoutes(p)

SpecValidate == Init /\ [][NextValidate]_vars

\* ------------------------------------------------------------------ audit, status
\* authenticateToken: only a verified token of an existing user passes.
AuthError(token) ==
    IF token = "none" THEN "Authentication Required"
    ELSE IF token = "expired" THEN "Token Expired" ELSE "Invalid Token"

authenticateToken(token) ==
    IF token \in Users THEN [status |-> 0, userId |-> token, body |-> <<>>]
    ELSE [status |-> 401, userId |-> NULL, body |-> ErrorBody(AuthError(token))]

AuditTokens == {"none", "u1", "u2", "expired"}

\* The query string of GET /api/chat/audit: 0 and UNDEF stand for an absent key.
AuditFilters ==
    { [limit |-> 50, offset |-> 0, entityId |-> 0, action |-> UNDEF, startDate |-> 0, endDate |-> 0],
      [limit |-> 50, offset |-> 0, entityId |-> 1, action |-> UNDEF, startDate |-> 0, endDate |-> 0],
      [limit |-> 1, offset |-> 1, entityId |-> 0, action |-> "soft_delete", startDate |-> 0, endDate |-> 0],
      [limit |-> 50, offset |-> 0, entityId |-> 0, action |-> UNDEF, startDate |-> 2, endDate |-> 2] }

\* Variant: the chat routes hold the pool that initializeDatabase created.
PoolOfInitializeDatabase == "pool"

\* The pool the chat routes import: module.exports is evaluated when the
\* database module loads, where pool is still null, and the later assignment
\* in initializeDatabase does not reach the exported property.
ExportedPool == NULL

\* The WHERE clause of the audit query.
AuditWhere(log, f) ==
    /\ log.entity_type = "trip"
    /\ f.entityId # 0 => log.entity_id = f.entityId
    /\ f.action # UNDEF => log.action = f.action
    /\ f.startDate # 0 => log.timestamp >= f.startDate
    /\ f.endDate # 0 => log.timestamp <= f.endDate

AuditLogView(i, log) ==
    [id |-> i, entityType |-> log.entity_type, entityId |-> log.entity_id,
     action |-> log.action, userId |-> log.user_id, oldData |-> log.old_data,
     newData |-> log.new_data, ipAddress |-> log.ip_address,
     userAgent |-> log.user_agent, timestamp |-> log.timestamp]

\* ORDER BY al.timestamp DESC LIMIT .. OFFSET ..: the possible results.
AuditLogsQuery(A, f) ==
    LET I == { i \in DOMAIN A : AuditWhere(A[i], f) }
        n == Cardinality(I)
        sorted == { g \in [1..n -> I] :
                      /\ \A i, j \in 1..n : i # j => g[i] # g[j]
                      /\ \A i \in 1..n : i < n => A[g[i]].timestamp >= A[g[i + 1]].timestamp }
    IN { [k \in DOMAIN LimitOffset(g, f.limit, f.offset) |->
            AuditLogView(LimitOffset(g, f.limit, f.offset)[k],
                         A[LimitOffset(g, f.limit, f.offset)[k]])] : g \in sorted }

AuditResponse(f, logs) ==
    [success |-> TRUE, auditLogs |-> logs,
     pagination |-> [limit |-> f.limit, offset |-> f.offset, total |-> Len(logs)]]

AuditRequest(u, f) == [op |-> "AUDIT", userId |-> u, chatId |-> 0, arg |-> f]

\* GET /api/chat/audit: authenticateToken, then pool.query on the imported pool.
ChatAudit(p) ==
    /\ pc[p] = "idle"
    /\ \E token \in AuditTokens, f \in AuditFilters :
         LET a == authenticateToken(token)
             r == AuditRequest(a.userId, f)
         IN IF a.status # 0
            THEN Respond(p, r, NoLocal, a.status, a.body)
            ELSE IF ExportedPool = NULL
                 THEN Respond(p, r, [NoLocal EXCEPT !.threw = TRUE], 500,
                              ErrorBody("Internal Server Error"))
                 ELSE \E logs \in AuditLogsQuery(audit_logs, f) :
                         Respond(p, r, NoLocal, 200, AuditResponse(f, logs))
    /\ UNCHANGED <<trips, audit_logs, now, nextId, hist>>

\* GET /api/chat/status: getTrips({limit: 1000}) for its total; a failure is
\* answered 200 without the total.
ChatStatus(p) ==
    /\ pc[p] = "idle"
    /\ \E failed \in BOOLEAN :
         LET r == [op |-> "STATUS", userId |-> NULL, chatId |-> 0, arg |-> <<>>]
             o == [limit |-> 1000, offset |-> 0, sortBy |-> "last_updated",
                   sortOrder |-> "desc", search |-> NoSearch, userId |-> NULL]
         IN IF failed
            THEN Respond(p, r, [NoLocal EXCEPT !.threw = TRUE], 200,
                         [status |-> "operational", totalTrips |-> <<>>])
            ELSE Respond(p, r, NoLocal, 200,
                         [status |-> "operational", totalTrips |-> <<TripsCount(trips, o)>>])
    /\ UNCHANGED <<trips, audit_logs, now, nextId, hist>>

\* The whole request surface of /api/chat and /api/plan.
SurfaceRoutes(p) == Routes(p) \/ ChatAudit(p) \/ ChatStatus(p)

NextSurface == Tick \/ \E p \in Sequential : SurfaceRoutes(p)

SpecSurface == Init /\ [][NextSurface]_vars

\* ------------------------------------------------------------------ credentials
\* The chat routes behind optionalAuth, with the bearer token of the request
\* kept in the request.
ChatListToken(p) ==
    /\ pc[p] = "idle"
    /\ \E token \in Tokens, a \in ListArgs :
         LET r == ListRequest(optionalAuth(token),
                              [token |-> token, limit |-> a.limit, offset |-> a.offset,
                               sortBy |-> a.sortBy, sortOrder |-> a.sortOrder,
                               search |-> a.search])
         IN \/ RowsQuery(p, r, NoLocal)
            \/ CountQuery(p, r, NoLocal)
    /\ UNCHANGED <<trips, audit_logs, now, nextId, hist>>

ChatGetToken(p) ==
    /\ pc[p] = "idle"
    /\ \E token \in Tokens, id \in TripIds :
         LET r == [GetRequest(optionalAuth(token), id) EXCEPT !.arg = [token |-> token]]
             res == ChatGetResult(trips, r.userId, id)
         IN Respond(p, r, [NoLocal EXCEPT !.trip = getTripById(trips, id)],
                    res.status, res.body)
    /\ UNCHANGED <<trips, audit_logs, now, nextId, hist>>

ChatDeleteToken(p) ==
    /\ pc[p] = "idle"
    /\ \E token \in Tokens, id \in TripIds :
         LET r == [DeleteRequest(optionalAuth(token), id) EXCEPT !.arg = [token |-> token]]
             tripToDelete == getTripById(trips, id)
             loc == [NoLocal EXCEPT !.trip = tripToDelete]
         IN IF tripToDelete = NoRow
            THEN Respond(p, r, loc, 404, ErrorBody("Chat Not Found"))
            ELSE IF AccessDenied(tripToDelete[1], r.userId)
                 THEN Respond(p, r, loc, 403, ErrorBody("Access Denied"))
                 ELSE Suspend(p, r, loc, "del_select")
    /\ UNCHANGED <<trips, audit_logs, now, nextId, hist>>

TokenRoutes(p) ==
    \/ ChatListToken(p) \/ ChatListRows(p) \/ ChatListCount(p)
    \/ ChatGetToken(p)
    \/ ChatDeleteToken(p) \/ DeleteTripSelect(p) \/ DeleteTripUpdate(p) \/ DeleteTripAudit(p)
    \/ PlanCreateTrip(p)

\* Requests with every kind of credential, one at a time.
NextTokens == \E p \in Sequential : TokenRoutes(p)

SpecTokens == Init /\ [][NextTokens]_vars

\* ------------------------------------------------------------------ properties
AuditCount(id, action) ==
    Cardinality({ i \in DOMAIN audit_logs :
                    audit_logs[i].entity_id = id /\ audit_logs[i].action = action })

\* Every combination of requester, search text, sort field, direction, limit
\* and offset the list accepts, within the bounds.
AllListOptions ==
    [limit : 1..MaxTrips, offset : 0..1, sortBy : {"lastUpdated", "title"},
     sortOrder : {"asc", "desc"}, search : SearchTerms \cup {NoSearch},
     userId : Requesters]

\* Text s occurs in text t.
Contains(t, s) == \E k \in 0..(Len(t) - Len(s)) : SubSeq(t, k + 1, k + Len(s)) = s

\* The live trips created without a credential.
AnonymousLive ==
    { id \in DOMAIN trips : trips[id].user_id = NULL /\ trips[id].deleted_at = NullTime }

\* C1: in every reachable state and for every requester, neither the list nor
\* a successful (200) GET by id returns a trip whose owner is another user; a
\* trip owned by a user is never returned to an anonymous requester.
C1_OwnerIsolation ==
    /\ \A o \in AllListOptions : \A page \in TripsQuery(trips, o) :
          \A i \in DOMAIN page : page[i].user_id # NULL => page[i].user_id = o.userId
    /\ \A u \in Requesters, id \in TripIds :
          LET res == ChatGetResult(trips, u, id) IN
          (res.status = 200 /\ res.body.trip.userId # NULL) => res.body.trip.userId = u
    /\ (out.req.op = "LIST" /\ out.status = 200) =>
          \A i \in DOMAIN out.body.trips :
             LET owner == trips[out.body.trips[i].id].user_id IN
             owner # NULL => owner = out.req.userId
    /\ (out.req.op = "GET" /\ out.status = 200 /\ out.body.trip.userId # NULL) =>
          out.body.trip.userId = out.req.userId

\* An anonymous list answered with the one anonymous trip while a live trip of
\* user u1 is stored.
C1_Witness ==
    /\ out.req.op = "LIST" /\ out.req.userId = NULL /\ out.status = 200
    /\ Len(out.body.trips) = 1
    /\ \E id \in DOMAIN trips : trips[id].user_id = "u1" /\ trips[id].deleted_at = NullTime

\* C2: a live trip created without a credential appears in the anonymous list,
\* also under a search text that occurs in its title up to case, and anonymous
\* GET by id answers 200; it is in no authenticated user's list and an
\* authenticated GET by id is denied (403).
C2_AnonymousTripVisibility ==
    /\ \A id \in AnonymousLive :
          /\ \A s \in SearchTerms \cup {NoSearch}, sb \in {"lastUpdated", "title"},
                so \in {"asc", "desc"} :
                (s = NoSearch \/ Contains(LOWER(trips[id].title), LOWER(s))) =>
                   \A page \in TripsQuery(trips, [limit |-> MaxTrips, offset |-> 0,
                                                  sortBy |-> sb, sortOrder |-> so,
                                                  search |-> s, userId |-> NULL]) :
                      \E i \in DOMAIN page : page[i].id = id
          /\ ChatGetResult(trips, NULL, id).status = 200
          /\ \A u \in Users :
                /\ \A o \in AllListOptions : o.userId = u =>
                      \A page \in TripsQuery(trips, o) :
                         \A i \in DOMAIN page : page[i].id # id
                /\ ChatGetResult(trips, u, id).status = 403
    /\ (out.req.op = "GET" /\ ~out.local.threw /\ out.req.chatId \in AnonymousLive) =>
          out.status = IF out.req.userId = NULL THEN 200 ELSE 403

\* The anonymous list with search text p answered with an anonymous trip
\* titled Pa.
C2_Witness ==
    /\ out.req.op = "LIST" /\ out.req.userId = NULL /\ out.status = 200
    /\ out.req.arg.search = <<"p">>
    /\ \E i \in DOMAIN out.body.trips :
          /\ out.body.trips[i].title = Pa
          /\ out.body.trips[i].id \in AnonymousLive

\* C3: a DELETE by a requester who is not the trip's owner (another user, an
\* anonymous requester on a user's trip, a user on an anonymous trip) answers
\* 403 in a step that changes neither the trips nor the audit log, and the
\* owner's GET by id still answers 200.
C3_DeniedDeleteStep ==
    \A id \in DOMAIN trips :
       (/\ out'.req.op = "DELETE" /\ out'.req.chatId = id
        /\ ~out'.local.threw
        /\ trips[id].user_id # out'.req.userId) =>
          /\ out'.status = 403
          /\ trips' = trips
          /\ audit_logs' = audit_logs
          /\ ChatGetResult(trips', trips[id].user_id, id).status = 200

C3_DeniedDeleteRejected == [][C3_DeniedDeleteStep]_vars

\* User u2's DELETE of a live trip of user u1 answered 403.
C3_Witness ==
    /\ out.req.op = "DELETE" /\ out.req.userId = "u2" /\ out.status = 403
    /\ out.req.chatId \in DOMAIN trips
    /\ trips[out.req.chatId].user_id = "u1"
    /\ trips[out.req.chatId].deleted_at = NullTime
    /\ audit_logs = << >>

\* C4: a GET or DELETE by id that arrives after the trip was soft-deleted (the
\* row is soft-deleted and not by this request) answers 404.
C4_SoftDeletedNotFound ==
    (/\ out.req.op \in {"GET", "DELETE"}
     /\ ~out.local.threw
     /\ out.local.deletedTrip = NoRow
     /\ out.req.chatId \in DOMAIN trips
     /\ trips[out.req.chatId].deleted_at # NullTime) =>
       out.status = 404

\* C5: deleteTrip is not idempotent-successful.  Per id the UPDATE takes
\* effect at most once, at most one call returns the deleted trip, with
\* deletedAt set as on the row, and at most one soft_delete entry is written;
\* a call that finds the trip live returns it, and a call that does not
\* returns null.
C5_DeleteTripNotIdempotent ==
    \A id \in TripIds :
       /\ hist[id].softDeleted <= 1
       /\ hist[id].returned <= 1
       /\ AuditCount(id, "soft_delete") <= 1
       /\ (out.req.op = "deleteTrip" /\ out.req.chatId = id /\ ~out.local.threw) =>
             IF out.local.tripData # NoRow
             THEN /\ out.local.ret # NoRow
                  /\ out.local.ret[1].id = id
                  /\ out.local.ret[1].deletedAt # NullTime
                  /\ id \in DOMAIN trips => trips[id].deleted_at = out.local.ret[1].deletedAt
                  /\ hist[id].softDeleted = 1 /\ hist[id].returned = 1
             ELSE out.local.ret = NoRow

\* A deleteTrip call that returned null on a trip an earlier call had deleted
\* and logged.
C5_Witness ==
    /\ out.req.op = "deleteTrip" /\ ~out.local.threw /\ out.local.ret = NoRow
    /\ hist[out.req.chatId].returned = 1
    /\ AuditCount(out.req.chatId, "soft_delete") = 1
    /\ out.req.chatId \in DOMAIN trips

\* C6: under every interleaving of two delete requests on the same live trip,
\* the UPDATE takes effect exactly once and exactly one request gets the
\* deleted trip back from deleteTrip; the other gets null (not found) and
\* leaves the row as the first set it.  The one whose audit insert completed
\* has written the only soft_delete entry of that id.
C6_ConcurrentDeletes ==
    \A id \in TripIds :
       /\ hist[id].softDeleted <= 1
       /\ hist[id].returned <= 1
       /\ AuditCount(id, "soft_delete") <= 1
       /\ (/\ out.req.op = "DELETE" /\ out.req.chatId = id
           /\ ~out.local.threw /\ out.status \notin {403, 404}) =>
             /\ hist[id].softDeleted = 1
             /\ trips[id].deleted_at # NullTime
             /\ IF out.local.ret # NoRow
                THEN /\ out.local.deletedTrip # NoRow
                     /\ out.local.ret[1].deletedAt = trips[id].deleted_at
                     /\ hist[id].returned = 1
                     /\ out.local.logged = "ok" => AuditCount(id, "soft_delete") = 1
                ELSE out.local.deletedTrip = NoRow

\* A delete request whose SELECT saw the trip live got null from deleteTrip:
\* the other request's UPDATE came first, and that request has returned the
\* deleted trip and written its audit entry.
C6_Witness ==
    /\ out.req.op = "DELETE" /\ ~out.local.threw
    /\ out.local.tripData # NoRow /\ out.local.ret = NoRow
    /\ hist[out.req.chatId].returned = 1
    /\ AuditCount(out.req.chatId, "soft_delete") = 1

\* C7: for every id, the audit log holds as many 'create' entries as creates
\* of that id succeeded and as many 'soft_delete' entries as deleteTrip calls
\* returned the deleted trip.
C7_AuditPerMutation ==
    \A id \in TripIds :
       /\ AuditCount(id, "create") = hist[id].created
       /\ AuditCount(id, "soft_delete") = hist[id].returned

\* C8: the mutation is committed before its audit entry is written.  Every
\* soft_delete entry is of a trip whose UPDATE has taken effect, whose row has
\* deleted_at set or is gone; every hard_delete entry is of a trip whose
\* DELETE has taken effect and whose row is gone.
C8_AuditAfterMutation ==
    \A i \in DOMAIN audit_logs :
       LET e == audit_logs[i]
           id == e.entity_id
       IN /\ e.action = "soft_delete" =>
                /\ hist[id].softDeleted >= 1
                /\ id \notin DOMAIN trips \/ trips[id].deleted_at # NullTime
          /\ e.action = "hard_delete" =>
                /\ hist[id].hardDeleted >= 1
                /\ id \notin DOMAIN trips

\* The log holds the soft_delete entry and the hard_delete entry of one trip.
C8_Witness ==
    \E id \in TripIds :
       /\ AuditCount(id, "soft_delete") = 1
       /\ AuditCount(id, "hard_delete") = 1

\* C9: once the UPDATE of a DELETE request has taken effect, the request
\* answers 200 with the deleted trip whether or not the audit insert fails:
\* the row stays soft-deleted, deleteTrip returns the deleted trip, and the
\* body does not depend on the audit write.
C9_AuditFailureIsolated ==
    (out.req.op = "DELETE" /\ out.local.deletedTrip # NoRow) =>
       LET id == out.req.chatId
           d == out.local.deletedTrip[1]
       IN /\ out.status = 200
          /\ out.local.logged \in {"ok", "error"}
          /\ out.local.ret # NoRow
          /\ out.local.ret[1].id = id
          /\ out.local.ret[1].deletedAt = d.deleted_at
          /\ trips[id].deleted_at = d.deleted_at
          /\ trips[id].deleted_at # NullTime
          /\ out.body.success
          /\ out.body.deletedTrip =
                [id |-> id, title |-> trips[id].title, location |-> trips[id].location,
                 deletedAt |-> trips[id].deleted_at]
          /\ AuditCount(id, "soft_delete") = IF out.local.logged = "ok" THEN 1 ELSE 0

\* A DELETE answered 200 although its audit insert failed.
C9_Witness ==
    /\ out.req.op = "DELETE" /\ out.local.logged = "error"
    /\ out.status = 200
    /\ trips[out.req.chatId].deleted_at # NullTime
    /\ AuditCount(out.req.chatId, "soft_delete") = 0

\* C10: for every requester, search text, sort field, direction, limit and
\* offset, no page of the list holds a soft-deleted trip, and neither does a
\* list response; the row of every soft-deleted trip is still stored.
C10_ListExcludesSoftDeleted ==
    /\ \A o \in AllListOptions : \A page \in TripsQuery(trips, o) :
          \A i \in DOMAIN page : page[i].deleted_at = NullTime
    /\ (out.req.op = "LIST" /\ out.status = 200) =>
          \A i \in DOMAIN out.body.trips :
             trips[out.body.trips[i].id].deleted_at = NullTime
    /\ \A id \in TripIds :
          hist[id].softDeleted >= 1 =>
             id \in DOMAIN trips /\ trips[id].deleted_at # NullTime

\* An anonymous list answered with one anonymous trip while another anonymous
\* trip is stored soft-deleted.
C10_Witness ==
    /\ out.req.op = "LIST" /\ out.req.userId = NULL /\ out.status = 200
    /\ out.req.arg.search = NoSearch
    /\ Len(out.body.trips) = 1
    /\ \E id \in DOMAIN trips :
          /\ trips[id].user_id = NULL
          /\ trips[id].deleted_at # NullTime
          /\ out.body.trips[1].id # id

\* The live trips in the scope of requester u that search text s matches.
LiveMatching(u, s) ==
    { id \in DOMAIN trips :
        /\ trips[id].deleted_at = NullTime
        /\ trips[id].user_id = u
        /\ s = NoSearch \/ SearchMatches(trips[id], s) }

\* C11: a list answers with at most limit trips, and its total is the number
\* of live trips in the requester's scope that the search matches, counted
\* before pagination: the same for every limit and offset over the same table.
C11_PageSizeAndTotal ==
    /\ (out.req.op = "LIST" /\ out.status = 200) =>
          /\ Len(out.body.trips) <= out.req.arg.limit
          /\ out.body.pagination.total =
                Cardinality(LiveMatching(out.req.userId, out.req.arg.search))
    /\ \A u \in PlanIdentities, a \in PageArgs :
          LET o == ListOptions(ListRequest(u, a)) IN
          /\ \A page \in TripsQuery(trips, o) : Len(page) <= a.limit
          /\ TripsCount(trips, o) = Cardinality(LiveMatching(u, a.search))

\* A list with limit 1 and offset 1 answered one trip and total 3.
C11_Witness ==
    /\ out.req.op = "LIST" /\ out.status = 200
    /\ out.req.arg.limit = 1 /\ out.req.arg.offset = 1
    /\ Len(out.body.trips) = 1
    /\ out.body.pagination.total = 3

\* C12: the pagination block of a list has hasMore = (offset + limit < total)
\* and nextOffset = offset + limit when hasMore, else null (-1 here); the
\* first page sorted by lastUpdated desc starts with a trip no other visible
\* trip was updated after.
C12_PaginationBlock ==
    (out.req.op = "LIST" /\ out.status = 200) =>
       LET a == out.req.arg
           pg == out.body.pagination
       IN /\ pg.limit = a.limit /\ pg.offset = a.offset
          /\ pg.hasMore = (a.offset + a.limit < pg.total)
          /\ pg.nextOffset = IF pg.hasMore THEN a.offset + a.limit ELSE 0 - 1
          /\ (a.sortBy = "lastUpdated" /\ a.sortOrder = "desc" /\ a.offset = 0
              /\ LiveMatching(out.req.userId, a.search) # {}) =>
                /\ Len(out.body.trips) >= 1
                /\ out.body.trips[1].id \in LiveMatching(out.req.userId, a.search)
                /\ \A id \in LiveMatching(out.req.userId, a.search) :
                      trips[id].last_updated <= out.body.trips[1].lastUpdated

\* limit 1, offset 0, lastUpdated desc over 3 live trips: the one trip last
\* updated at time 2 is returned, with hasMore and nextOffset 1.
C12_Witness ==
    /\ out.req.op = "LIST" /\ out.status = 200
    /\ out.req.arg.limit = 1 /\ out.req.arg.offset = 0
    /\ out.req.arg.sortBy = "lastUpdated" /\ out.req.arg.sortOrder = "desc"
    /\ out.body.pagination.total = 3
    /\ out.body.pagination.hasMore
    /\ out.body.pagination.nextOffset = 1
    /\ Len(out.body.trips) = 1
    /\ out.body.trips[1].lastUpdated = 2
    /\ \A id \in DOMAIN trips :
          id # out.body.trips[1].id => trips[id].last_updated = 1

\* The sort key of row r under list parameters a.
SortKey(r, a) == IF SortColumn(a.sortBy) = "title" THEN r.title ELSE r[SortColumn(a.sortBy)]

\* C13: the rows of a list come in the requested order with ties broken by
\* creation time, so the order over an unchanged table is determined, and
\* the pages at offsets 0, 1, 2, ... of limit 1 hold every matching trip
\* exactly once.
C13_StableOrder ==
    \A u \in PlanIdentities, a \in PageArgs :
       LET o == ListOptions(ListRequest(u, a))
           sorted == OrderBy(TripsMatching(trips, u, a.search),
                             SortColumn(a.sortBy), SortDirection(a.sortOrder))
           n == Cardinality(LiveMatching(u, a.search))
       IN /\ \A f \in sorted : \A i, j \in DOMAIN f :
                (i < j /\ SortKey(f[i], a) = SortKey(f[j], a)) =>
                   f[i].created_at <= f[j].created_at
          /\ a.limit = 1 =>
                \A k \in 0..(n - 1), l \in 0..(n - 1) :
                   \A pk \in TripsQuery(trips, [o EXCEPT !.offset = k]),
                      pl \in TripsQuery(trips, [o EXCEPT !.offset = l]) :
                      k # l => pk[1].id # pl[1].id

\* The requests the schemas have to reject: a limit that is no integer of
\* 1..100, a negative offset, an unknown sort field or direction; an id that
\* is no UUID.
MalformedQuery(q) ==
    \/ q.limit.kind \in {"text", "fraction"}
    \/ q.limit.kind = "int" /\ q.limit.n \notin 1..100
    \/ q.offset.kind = "int" /\ q.offset.n < 0
    \/ q.sortBy \notin {UNDEF, "lastUpdated", "title"}
    \/ q.sortOrder \notin {UNDEF, "asc", "desc"}

MalformedRequest(r) ==
    \/ r.op = "LIST" /\ MalformedQuery(r.arg.raw)
    \/ r.op \in {"GET", "DELETE"} /\ r.arg.raw.form # "uuid"

\* C14: a list with a malformed limit, offset, sort field or direction, and a
\* get or delete with an id that is no UUID, is answered 400 'Validation
\* Error' without any query: no query result is held, no such request ever
\* waits for the store, and the id names no row the handler could touch.
C14_MalformedRejected ==
    /\ \A p \in Procs : req[p].op \in {"LIST", "GET", "DELETE"} => ~MalformedRequest(req[p])
    /\ (out.req.op \in {"LIST", "GET", "DELETE"} /\ MalformedRequest(out.req)) =>
          /\ out.status = 400
          /\ out.body = ValidationError
          /\ out.local = NoLocal

\* A list with limit 101 was rejected while a trip was stored.
C14_Witness ==
    /\ out.req.op = "LIST"
    /\ out.req.arg.raw.limit = [kind |-> "int", n |-> 101]
    /\ out.status = 400
    /\ trips # << >>

\* C15: a GET or DELETE by id that the handler answered without a failure of
\* the store is answered 404 exactly when the table holds no row with that
\* id, and 403 exactly when it holds one whose user_id differs from the
\* requester's identity (null for an anonymous requester).
C15_NotFoundVersusForbidden ==
    (out.req.op \in {"GET", "DELETE"} /\ ~out.local.threw) =>
       /\ out.status = 404 <=> out.req.chatId \notin DOMAIN trips
       /\ out.status = 403 <=>
             /\ out.req.chatId \in DOMAIN trips
             /\ trips[out.req.chatId].user_id # out.req.userId

\* An anonymous GET of a trip of user u1 was answered 403 while a GET of an
\* id without a row would be answered 404.
C15_Witness ==
    /\ out.req.op = "GET"
    /\ out.req.userId = NULL
    /\ out.status = 403
    /\ trips[out.req.chatId].user_id = "u1"
    /\ \E id \in TripIds : id \notin DOMAIN trips

\* The rows that a step keeps.
KeptRows == DOMAIN trips \cap DOMAIN trips'

C16_DeletedAtStep ==
    \A id \in KeptRows :
       trips[id].deleted_at # NullTime => trips'[id].deleted_at = trips[id].deleted_at

\* C16: soft deletion is one-way.  No step of createTrip, updateTrip,
\* deleteTrip or hardDeleteTrip changes a deleted_at that is not null, as long
\* as the row exists.
C16_DeletedAtOneWay == [][C16_DeletedAtStep]_vars

\* updateTrip has changed a soft-deleted row after its deletion.
C16_Witness ==
    /\ out.req.op = "updateTrip"
    /\ out.local.ret # NoRow
    /\ trips[out.req.chatId].deleted_at # NullTime
    /\ trips[out.req.chatId].deleted_at < trips[out.req.chatId].updated_at

C17_OwnerStep ==
    /\ \A id \in KeptRows : trips'[id].user_id = trips[id].user_id
    /\ \A id \in DOMAIN trips' \ DOMAIN trips :
          out'.req.op = "PLAN" /\ out'.req.chatId = id /\ trips'[id].user_id = out'.req.userId

\* C17: user_id is set by the insert of createTrip, to the identity of the
\* requester, and no step changes it on a row that exists before and after.
C17_OwnerSetOnce == [][C17_OwnerStep]_vars

\* updateTrip and then deleteTrip have changed a trip of user u1.
C17_Witness ==
    /\ out.req.op = "deleteTrip"
    /\ out.local.ret # NoRow
    /\ trips[out.req.chatId].user_id = "u1"
    /\ trips[out.req.chatId].title = Ab

C18_TimestampsStep ==
    \A id \in KeptRows :
       (/\ trips'[id] # trips[id]
        /\ trips[id].updated_at < now
        /\ trips[id].last_updated < now) =>
          /\ trips[id].updated_at < trips'[id].updated_at
          /\ trips[id].last_updated < trips'[id].last_updated

\* C18: a step of updateTrip or deleteTrip that changes a row, later than the
\* row's timestamps, leaves both updated_at and last_updated strictly later
\* than they were.
C18_TimestampsAdvance == [][C18_TimestampsStep]_vars

C19_HardDeleteStep ==
    (out'.req.op = "hardDeleteTrip" /\ ~out'.local.threw) =>
       LET id == out'.req.chatId IN
       IF out'.local.ret = <<TRUE>>
       THEN /\ out'.local.tripData # NoRow
            /\ id \notin DOMAIN trips'
            /\ getTripById(trips', id) = NoRow
            /\ \A o \in AllListOptions : \A page \in TripsQuery(trips', o) :
                  \A i \in DOMAIN page : page[i].id # id
       ELSE /\ out'.local.ret = <<FALSE>>
            /\ id \notin DOMAIN trips
            /\ trips' = trips
            /\ audit_logs' = audit_logs

\* C19: a call of hardDeleteTrip that does not fail returns true or false.
\* It returns true after it removed the row, live or soft-deleted:
\* getTripById finds nothing and no list holds the id.  It returns false only
\* when the table had no row with the id, and then no table changes.
C19_HardDelete == [][C19_HardDeleteStep]_vars

\* hardDeleteTrip has removed a soft-deleted trip and returned true.
C19_Witness ==
    /\ out.req.op = "hardDeleteTrip"
    /\ out.local.ret = <<TRUE>>
    /\ out.local.tripData # NoRow
    /\ out.local.tripData[1].deleted_at # NullTime
    /\ out.req.chatId \notin DOMAIN trips

\* C20: a list, get or delete one of whose queries on trips failed is
\* answered 5xx.  A list answered 200 has run both queries: its body is the
\* whole page of the rows query with the total of the count query.  A delete
\* answered 200 has soft-deleted the row.
C20_StoreFailure ==
    /\ (out.req.op \in {"LIST", "GET", "DELETE"} /\ out.local.threw) =>
          out.status \in 500..599
    /\ (out.req.op = "LIST" /\ out.status = 200) =>
          /\ ~out.local.threw
          /\ out.local.rows # <<>>
          /\ out.local.total = TripsCount(trips, ListOptions(out.req))
          /\ out.body = ListResponse(out.req, out.local.rows[1], out.local.total)
          /\ \E page \in TripsQuery(trips, ListOptions(out.req)) :
                out.local.rows[1] = [i \in DOMAIN page |-> formatTripFromDB(page[i])]
    /\ (out.req.op = "DELETE" /\ out.status = 200) =>
          /\ ~out.local.threw
          /\ out.local.deletedTrip # NoRow
          /\ out.req.chatId \in DOMAIN trips
          /\ trips[out.req.chatId].deleted_at # NullTime

\* The count query of a list failed after its rows query had returned a trip,
\* and the list was answered 500.
C20_Witness ==
    /\ out.req.op = "LIST"
    /\ out.local.threw
    /\ out.local.rows # <<>>
    /\ out.local.rows[1] # <<>>
    /\ out.status = 500

\* C21: the audit query of an authenticated caller is answered 200 with the
\* trip audit entries that match its filters, latest first, cut to limit and
\* offset.
C21_AuditQueryAnswers ==
    (out.req.op = "AUDIT" /\ Truthy(out.req.userId)) =>
       /\ out.status = 200
       /\ out.body.auditLogs \in AuditLogsQuery(audit_logs, out.req.arg)

\* C22: after a DELETE answered 200 whose audit insert did not fail, the
\* last audit entry is the trip's soft_delete entry by the requester; its
\* old data is the row as it was live (the row of now but for deleted_at and
\* updated_at), its new data is the row's deleted_at.  The deletedAt of every
\* 200 response is the deleted_at of the row.
C22_SoftDeleteAudit ==
    (out.req.op = "DELETE" /\ out.status = 200) =>
       LET id == out.req.chatId
           row == trips[id]
       IN /\ out.body.deletedTrip.deletedAt = row.deleted_at
          /\ row.deleted_at # NullTime
          /\ out.local.logged = "ok" =>
                /\ audit_logs # << >>
                /\ LET e == audit_logs[Len(audit_logs)] IN
                   /\ e.entity_type = "trip"
                   /\ e.entity_id = id
                   /\ e.action = "soft_delete"
                   /\ e.user_id = out.req.userId
                   /\ e.new_data = << [deleted_at |-> row.deleted_at] >>
                   /\ e.old_data # NoRow
                   /\ e.old_data[1].deleted_at = NullTime
                   /\ e.old_data[1].updated_at <= row.updated_at
                   /\ e.old_data[1] = [row EXCEPT !.deleted_at = NullTime,
                                                  !.updated_at = e.old_data[1].updated_at]

\* User u1 has deleted an own trip and the audit entry was written.
C22_Witness ==
    /\ out.req.op = "DELETE"
    /\ out.status = 200
    /\ out.req.userId = "u1"
    /\ out.local.logged = "ok"
    /\ audit_logs # << >>

C23_RowsKeptStep ==
    /\ DOMAIN trips \subseteq DOMAIN trips'
    /\ \A id \in DOMAIN trips :
          trips'[id] # trips[id] =>
             /\ trips[id].deleted_at = NullTime
             /\ trips'[id].deleted_at # NullTime
             /\ trips'[id] = [trips[id] EXCEPT !.deleted_at = trips'[id].deleted_at,
                                               !.updated_at = trips'[id].updated_at]
    /\ \A p \in Procs : req'[p].op # "hardDeleteTrip"

\* C23: no request on the request surface (list, get, delete, create plan,
\* audit, status) removes a row of trips.  Every step keeps every row; a row
\* that changes was live and is now soft-deleted, with nothing else changed
\* but updated_at; and no request runs hardDeleteTrip.
C23_NoPhysicalRemoval == [][C23_RowsKeptStep]_vars

\* A DELETE was answered 200 and its row is still stored, soft-deleted.
C23_Witness ==
    /\ out.req.op = "DELETE"
    /\ out.status = 200
    /\ out.req.chatId \in DOMAIN trips
    /\ trips[out.req.chatId].deleted_at # NullTime
    /\ trips[out.req.chatId].title = Pa

C24_CheckThenActStep ==
    /\ \A id \in KeptRows :
          trips'[id].deleted_at # trips[id].deleted_at =>
             \E p \in Procs :
                /\ req[p].op = "DELETE" /\ req[p].chatId = id
                /\ pc[p] = "del_update" /\ pc'[p] = "del_audit"
                /\ local[p].trip # NoRow
                /\ ~AccessDenied(local[p].trip[1], req[p].userId)
                /\ trips[id].user_id = req[p].userId
    /\ \A i \in DOMAIN audit_logs' :
          audit_logs'[i].action = "soft_delete" =>
             /\ audit_logs'[i].old_data # NoRow
             /\ audit_logs'[i].user_id = audit_logs'[i].old_data[1].user_id

\* C24: under every interleaving of deletes, creates, updates, lists and
\* gets, a step that soft-deletes a row belongs to a DELETE request that
\* passed the access check, and the row's user_id at that step is the
\* requester's identity; every soft_delete audit entry has the user_id of its
\* old data as actor.
C24_CheckThenAct == [][C24_CheckThenActStep]_vars

\* User u1's DELETE was answered 200 for a trip an update had retitled, while
\* another DELETE of the same trip had passed the access check and was waiting.
C24_Witness ==
    /\ out.req.op = "DELETE"
    /\ out.status = 200
    /\ out.req.userId = "u1"
    /\ trips[out.req.chatId].title = Ab
    /\ \E q \in Procs : /\ req[q].op = "DELETE" /\ req[q].chatId = out.req.chatId
                        /\ pc[q] = "del_update"

\* The trips of users other than u.
ForeignTrips(u) == { id \in DOMAIN trips : trips[id].user_id \in Users \ {u} }

RejectedTokens == {"malformed", "expired", "orphan"}

\* C26: a list, get or delete with a malformed or expired token, or the
\* token of a user that no longer exists, runs as anonymous and is never
\* answered 401.  The get is answered as the anonymous get of the same id;
\* the list holds only trips without owner, with the anonymous total; the
\* delete is answered 404 without a row, 403 on a user's trip, and on a trip
\* without owner it soft-deletes and records the actor null.
C26_RejectedTokenIsAnonymous ==
    (out.req.op \in {"LIST", "GET", "DELETE"} /\ out.req.arg.token \in RejectedTokens) =>
       LET id == out.req.chatId IN
       /\ out.req.userId = NULL
       /\ out.status # 401
       /\ out.req.op = "GET" =>
             /\ out.status = ChatGetResult(trips, NULL, id).status
             /\ out.body = ChatGetResult(trips, NULL, id).body
       /\ out.req.op = "LIST" =>
             /\ out.status = 200
             /\ \A i \in DOMAIN out.body.trips :
                   trips[out.body.trips[i].id].user_id = NULL
             /\ out.body.pagination.total =
                   TripsCount(trips, [ListOptions(out.req) EXCEPT !.userId = NULL])
       /\ out.req.op = "DELETE" =>
             /\ out.status = 404 <=> id \notin DOMAIN trips
             /\ out.status = 403 <=> (id \in DOMAIN trips /\ trips[id].user_id # NULL)
             /\ out.status = 200 =>
                   /\ trips[id].deleted_at # NullTime
                   /\ out.local.logged = "ok" =>
                         audit_logs[Len(audit_logs)].user_id = NULL

\* A DELETE with an expired token has soft-deleted a trip without owner.
C26_Witness ==
    /\ out.req.op = "DELETE"
    /\ out.req.arg.token = "expired"
    /\ out.status = 200
    /\ trips[out.req.chatId].user_id = NULL
    /\ trips[out.req.chatId].deleted_at # NullTime

\* C27: the chatId of a POST /api/plan answered 200 with success names a row
\* that this request stored with the requester's identity as user_id, and a
\* GET of that id by the same requester is answered 200 with that trip.
C27_PlanPersisted ==
    (out.req.op = "PLAN" /\ out.status = 200 /\ out.body.success) =>
       LET id == out.body.chatId IN
       /\ id \in DOMAIN trips
       /\ trips[id].user_id = out.req.userId
       /\ hist[id].created = 1
       /\ ChatGetResult(trips, out.req.userId, id).status = 200

C28_SnapshotStep ==
    /\ \A p \in Procs :
          (pc[p] = "del_update" /\ pc'[p] = "del_audit") =>
             local[p].tripData = << trips[req[p].chatId] >>
    /\ \A p \in Procs :
          (pc[p] = "del_audit" /\ Len(audit_logs') = Len(audit_logs) + 1) =>
             audit_logs'[Len(audit_logs')].old_data = local[p].tripData

\* C28: under every interleaving, the old data of a soft_delete audit entry
\* is the row as it was at the step that soft-deleted it: the row deleteTrip
\* has read is still the stored row when its UPDATE takes effect, and the
\* audit entry holds that row.
C28_AuditSnapshotCurrent == [][C28_SnapshotStep]_vars

\* C29: with creates and soft deletes running between its queries, a list
\* answered 200 still describes one state of the table: its page has at most
\* max(0, total - offset) trips, and a page that ends at the total or holds
\* fewer trips than the limit has hasMore false.
C29_ListConsistent ==
    (out.req.op = "LIST" /\ out.status = 200) =>
       LET pg == out.body.pagination
           n == Len(out.body.trips)
           rest == IF pg.total > pg.offset THEN pg.total - pg.offset ELSE 0
       IN /\ n <= rest
          /\ (n < pg.limit \/ pg.offset + n >= pg.total) => ~pg.hasMore

C30_FrozenStep ==
    /\ \A id \in KeptRows :
          trips[id].deleted_at # NullTime =>
             /\ trips'[id].title = trips[id].title
             /\ trips'[id].location = trips[id].location
             /\ trips'[id].search_data = trips[id].search_data
    /\ (/\ out'.req.op = "updateTrip"
        /\ ~out'.local.threw
        /\ out'.req.chatId \in DOMAIN trips
        /\ trips[out'.req.chatId].deleted_at # NullTime) =>
          /\ out'.local.ret = NoRow
          /\ trips' = trips

\* C30: no step changes the title, location or search data of a soft-deleted
\* row, and updateTrip on a soft-deleted id returns null and leaves the row
\* as it is.
C30_SoftDeletedFrozen == [][C30_FrozenStep]_vars

====
